---- MODULE Spec2Model ----
(***************************************************************************)
(* A model of update_readme.py: one run of main().                         *)
(*                                                                         *)
(* The environment of a run is the HTTP response the GraphQL endpoint      *)
(* gives (its status code and its JSON body) and the contents of           *)
(* README.md.  main() fetches, computes the streak and the language        *)
(* distribution, renders both sections and rewrites the document.  Every   *)
(* call main() makes is one action; the functions themselves are           *)
(* operators computed the way the Python code computes them.               *)
(*                                                                         *)
(* JSON objects are records (a missing key is a field that is not in the   *)
(* record's DOMAIN), JSON arrays are sequences, JSON null is None.  A      *)
(* date string "YYYY-MM-DD" is the tuple <<YYYY, MM, DD>>; strptime and    *)
(* .date() turn it into a proleptic Gregorian ordinal, on which timedelta  *)
(* arithmetic and comparison work.  Text (the document and the rendered    *)
(* sections) is a sequence of tokens: the markers, the newline, and runs   *)
(* of other characters.                                                    *)
(***************************************************************************)
EXTENDS Integers, Sequences, FiniteSets, TLC

VARIABLES
    response,             \* what requests.post returns: status_code and json()
    readme,               \* the contents of README.md
    pc,                   \* the call main() makes next
    data,                 \* main's local `data`
    streak,               \* main's local `streak`
    total_contributions,  \* main's local `total_contributions`
    language_stats,       \* main's local `language_stats` (an ordered dict)
    streak_section,       \* main's local `streak_section`
    languages_section,    \* main's local `languages_section`
    update_calls,         \* how many times update_readme has been invoked
    writes                \* how many times README.md has been written

vars == <<response, readme, pc, data, streak, total_contributions,
          language_stats, streak_section, languages_section, update_calls,
          writes>>

(***************************************************************************)
(* Bounds of the model.                                                    *)
(***************************************************************************)
MaxEntries == 3    \* day entries in a calendar
DaysBack == 3      \* how far before today a day entry may be dated
WeekLen == 2       \* day entries per week of a generated calendar
MaxEdges == 3      \* language edges over all repositories
MaxDocLen == 4     \* tokens in README.md

(***************************************************************************)
(* Python values.                                                          *)
(***************************************************************************)
None == [NoneType |-> TRUE]

EmptyDict == [k \in {} |-> 0]

\* `not v` for a value that is None or a dict
Falsy(v) == IF DOMAIN v = {} THEN TRUE ELSE v = None

SeqsUpTo(S, n) == UNION {[1..k -> S] : k \in 0..n}

RECURSIVE SumSeq(_)
SumSeq(s) == IF s = <<>> THEN 0 ELSE Head(s) + SumSeq(Tail(s))

(***************************************************************************)
(* datetime: strptime(..., "%Y-%m-%d").date(), date ordinals, timedelta.   *)
(***************************************************************************)
IsLeap(y) == y % 4 = 0 /\ (y % 100 # 0 \/ y % 400 = 0)

DaysInMonth(y, m) ==
    IF m = 2 THEN (IF IsLeap(y) THEN 29 ELSE 28)
    ELSE IF m \in {4, 6, 9, 11} THEN 30 ELSE 31

\* strptime raises ValueError for a string that names no calendar day
ValidDate(d) ==
    /\ d[1] \in 1..9999
    /\ d[2] \in 1..12
    /\ d[3] \in 1..DaysInMonth(d[1], d[2])

DaysBeforeYear(y) ==
    (y - 1) * 365 + ((y - 1) \div 4) - ((y - 1) \div 100) + ((y - 1) \div 400)

RECURSIVE DaysBeforeMonth(_, _)
DaysBeforeMonth(y, m) ==
    IF m = 1 THEN 0 ELSE DaysBeforeMonth(y, m - 1) + DaysInMonth(y, m - 1)

\* the date a valid date string parses to, as date.toordinal() numbers it
ToOrdinal(d) == DaysBeforeYear(d[1]) + DaysBeforeMonth(d[1], d[2]) + d[3]

\* datetime.now(): the runner's clock, 1 March of a leap year, 12:00
NowYMD == <<2024, 3, 1>>

today == ToOrdinal(NowYMD)

\* today - timedelta(days=n)
MinusDays(d, n) == d - n

(***************************************************************************)
(* The JSON body of the response.                                          *)
(*                                                                         *)
(* A body is built from a list of day entries <<date, count>>, the         *)
(* totalContributions scalar and a list of repositories (each a list of    *)
(* <<language, size>> edges).  `miss` names what a malformed body lacks:   *)
(* a key ("data", ..., "contributionCount", "repositories", ..., "size")   *)
(* or "null:user" for a user that is null; `at` is the week, day,          *)
(* repository or edge that lacks it.                                       *)
(***************************************************************************)
Drop(rec, key) == [k \in (DOMAIN rec) \ {key} |-> rec[k]]

DropIf(rec, key, miss) == IF miss = key THEN Drop(rec, key) ELSE rec

DayJson(e, i, miss, at) ==
    LET full == [date |-> e[1], contributionCount |-> e[2]]
    IN  IF at = i /\ miss \in {"date", "contributionCount"}
        THEN Drop(full, miss) ELSE full

\* the entries' index range of week w
WeekRange(n, w) == {i \in 1..n : (i - 1) \div WeekLen = w - 1}

WeekJson(entries, w, miss, at) ==
    LET idx == WeekRange(Len(entries), w)
        lo == (w - 1) * WeekLen
        full == [contributionDays |->
                    [j \in 1..Cardinality(idx) |->
                        DayJson(entries[lo + j], lo + j, miss, at)]]
    IN  IF at = w /\ miss = "contributionDays"
        THEN Drop(full, "contributionDays") ELSE full

NumWeeks(n) == (n + WeekLen - 1) \div WeekLen

\* `emptyWeek`: the calendar of no entries holds one week of no days
\* rather than no week
CalendarJson(entries, total, emptyWeek, miss, at) ==
    LET nw == IF Len(entries) = 0 /\ emptyWeek THEN 1 ELSE NumWeeks(Len(entries))
        full == [totalContributions |-> total,
                 weeks |-> [w \in 1..nw |-> WeekJson(entries, w, miss, at)]]
    IN  DropIf(DropIf(full, "totalContributions", miss), "weeks", miss)

EdgeJson(e, i, miss, at) ==
    LET node == [name |-> e[1], color |-> "#3572A5"]
        full == [size |-> e[2],
                 node |-> IF at = i /\ miss = "name" THEN Drop(node, "name") ELSE node]
    IN  IF at = i /\ miss \in {"size", "node"} THEN Drop(full, miss) ELSE full

RECURSIVE EdgesBefore(_, _)
EdgesBefore(repos, r) ==
    IF r = 1 THEN 0 ELSE EdgesBefore(repos, r - 1) + Len(repos[r - 1])

RepoJson(repos, r, miss, at) ==
    LET lo == EdgesBefore(repos, r)
        langs == [edges |-> [j \in 1..Len(repos[r]) |->
                                EdgeJson(repos[r][j], lo + j, miss, at)]]
        full == [name |-> "repo",
                 languages |-> IF at = r /\ miss = "edges"
                               THEN Drop(langs, "edges") ELSE langs]
    IN  IF at = r /\ miss = "languages" THEN Drop(full, "languages") ELSE full

RepositoriesJson(repos, miss, at) ==
    LET full == [nodes |-> [r \in 1..Len(repos) |-> RepoJson(repos, r, miss, at)]]
    IN  DropIf(full, "nodes", miss)

BodyJson(entries, total, emptyWeek, repos, miss, at) ==
    LET cal == CalendarJson(entries, total, emptyWeek, miss, at)
        coll == DropIf([contributionCalendar |-> cal], "contributionCalendar", miss)
        user == DropIf(DropIf([contributionsCollection |-> coll,
                               repositories |-> RepositoriesJson(repos, miss, at)],
                              "contributionsCollection", miss),
                       "repositories", miss)
        dat == DropIf([user |-> IF miss = "null:user" THEN None ELSE user],
                      "user", miss)
    IN  DropIf([data |-> dat], "data", miss)

(***************************************************************************)
(* Subscripting: obj[key] raises TypeError on None and KeyError on a dict  *)
(* without the key.                                                        *)
(***************************************************************************)
IsNone(v) == IF DOMAIN v = {} THEN FALSE ELSE v = None

RECURSIVE PathError(_, _)
PathError(v, path) ==
    IF path = <<>> THEN "ok"
    ELSE IF IsNone(v) THEN "TypeError"
    ELSE IF Head(path) \notin DOMAIN v THEN "KeyError"
    ELSE PathError(v[Head(path)], Tail(path))

RECURSIVE PathGet(_, _)
PathGet(v, path) ==
    IF path = <<>> THEN v ELSE PathGet(v[Head(path)], Tail(path))

CalendarPath == <<"data", "user", "contributionsCollection", "contributionCalendar">>

ReposPath == <<"data", "user", "repositories", "nodes">>

(***************************************************************************)
(* calculate_streak                                                        *)
(***************************************************************************)
\* the dict literal of one day: day["date"] is read and parsed, then
\* day["contributionCount"] is read
DayError(day) ==
    IF "date" \notin DOMAIN day THEN "KeyError"
    ELSE IF ~ValidDate(day.date) THEN "ValueError"
    ELSE IF "contributionCount" \notin DOMAIN day THEN "KeyError"
    ELSE "ok"

DayEntry(day) == [date |-> ToOrdinal(day.date), count |-> day.contributionCount]

\* the inner loop over one week's days, from day j on: the first error ends it
RECURSIVE CollectDays(_, _, _)
CollectDays(days, j, acc) ==
    IF j > Len(days) THEN [err |-> "ok", days |-> acc]
    ELSE IF DayError(days[j]) # "ok" THEN [err |-> DayError(days[j]), days |-> acc]
    ELSE CollectDays(days, j + 1, Append(acc, DayEntry(days[j])))

\* the outer loop over the weeks, from week w on
RECURSIVE CollectWeeks(_, _, _)
CollectWeeks(weeks, w, acc) ==
    IF w > Len(weeks) THEN [err |-> "ok", days |-> acc]
    ELSE IF "contributionDays" \notin DOMAIN weeks[w]
         THEN [err |-> "KeyError", days |-> acc]
    ELSE LET r == CollectDays(weeks[w].contributionDays, 1, acc)
         IN  IF r.err # "ok" THEN r ELSE CollectWeeks(weeks, w + 1, r.days)

\* x put into a list sorted by date, newest first, behind the entries of
\* its own date: list.sort is stable, with reverse=True too
RECURSIVE InsertByDateDesc(_, _)
InsertByDateDesc(sorted, x) ==
    IF sorted = <<>> THEN <<x>>
    ELSE IF Head(sorted).date >= x.date
         THEN <<Head(sorted)>> \o InsertByDateDesc(Tail(sorted), x)
    ELSE <<x>> \o sorted

RECURSIVE SortInto(_, _)
SortInto(sorted, rest) ==
    IF rest = <<>> THEN sorted
    ELSE SortInto(InsertByDateDesc(sorted, Head(rest)), Tail(rest))

\* the list left in the order of the response
NoSort(all_days) == all_days

\* all_days.sort(key=lambda x: x["date"], reverse=True)
SortDays(all_days) == SortInto(<<>>, all_days)

\* day["count"] > 0
Active(day) == day.count > 0

\* a walk that never compares a day's date with the expected one
RECURSIVE IgnoresGaps(_, _, _)
IgnoresGaps(all_days, i, n) ==
    IF i >= Len(all_days) THEN n
    ELSE LET day == all_days[i + 1]
         IN  IF i = 0 /\ day.date = today /\ day.count = 0
             THEN IgnoresGaps(all_days, i + 1, n)
             ELSE IF day.count > 0 THEN IgnoresGaps(all_days, i + 1, n + 1)
             ELSE n

\* the loop `for i, day in enumerate(all_days)` from index i on, with
\* `streak` at n: the value of `streak` when the loop ends
RECURSIVE StreakLoop(_, _, _)
StreakLoop(all_days, i, n) ==
    IF i >= Len(all_days) THEN n
    ELSE LET day == all_days[i + 1]
             expected_date == MinusDays(today, i)
         IN  IF i = 0 /\ day.date = today /\ day.count = 0
             THEN StreakLoop(all_days, i + 1, n)                       \* continue
             ELSE IF \/ day.date = expected_date
                     \/ (i = 0 /\ day.date = MinusDays(today, 1))
             THEN (IF Active(day)
                   THEN StreakLoop(all_days, i + 1, n + 1)
                   ELSE n)                                              \* break
             ELSE IF day.date < expected_date
             THEN n                                                     \* break
             ELSE StreakLoop(all_days, i + 1, n)

\* the result of a call: the pair it returns, or the exception it raises
Returns(s, t) == [raised |-> "none", streak |-> s, total |-> t]

Raises(e) == [raised |-> e, streak |-> 0, total |-> 0]

\* except TypeError
CatchesTypeErrorOnly(e) == e = "TypeError"

\* except (KeyError, TypeError)
Caught(e) == e \in {"KeyError", "TypeError"}

\* what the try statement makes of an exception raised in its body
StreakExcept(e) == IF Caught(e) THEN Returns(0, 0) ELSE Raises(e)

\* a total of 0 for a calendar of no days
ZeroTotalWhenNoDays(calendar, all_days) ==
    IF all_days = <<>> THEN 0 ELSE calendar.totalContributions

\* the second component of `return streak, total_contributions`
ReturnedTotal(calendar, all_days) == calendar.totalContributions

calculate_streak(contribution_data) ==
    IF Falsy(contribution_data) THEN Returns(0, 0)
    ELSE IF PathError(contribution_data, CalendarPath) # "ok"
    THEN StreakExcept(PathError(contribution_data, CalendarPath))
    ELSE LET calendar == PathGet(contribution_data, CalendarPath)
         IN  IF IsNone(calendar) THEN StreakExcept("TypeError")
             ELSE IF "totalContributions" \notin DOMAIN calendar
             THEN StreakExcept("KeyError")
             ELSE IF "weeks" \notin DOMAIN calendar THEN StreakExcept("KeyError")
             ELSE LET got == CollectWeeks(calendar.weeks, 1, <<>>)
                  IN  IF got.err # "ok" THEN StreakExcept(got.err)
                      ELSE Returns(StreakLoop(SortDays(got.days), 0, 0),
                                   ReturnedTotal(calendar, got.days))

(***************************************************************************)
(* get_language_stats                                                      *)
(*                                                                         *)
(* A dict is the sequence of its items in insertion order.  A float        *)
(* percentage is kept as the exact fraction num/den it approximates.       *)
(***************************************************************************)
HasLang(items, name) == \E i \in 1..Len(items) : items[i].lang = name

\* language_bytes[name] += size on a defaultdict(int)
AddBytes(items, name, size) ==
    IF HasLang(items, name)
    THEN [i \in 1..Len(items) |->
            IF items[i].lang = name
            THEN [lang |-> name, bytes |-> items[i].bytes + size]
            ELSE items[i]]
    ELSE Append(items, [lang |-> name, bytes |-> size])

\* an accumulation that leaves out the edges of size 0
SkipZeroSizes(items, name, size) ==
    IF size = 0 THEN items ELSE AddBytes(items, name, size)

\* the statement of the inner loop's body
Accumulate(items, name, size) == AddBytes(items, name, size)

EdgeError(edge) ==
    IF "node" \notin DOMAIN edge THEN "KeyError"
    ELSE IF "name" \notin DOMAIN edge.node THEN "KeyError"
    ELSE IF "size" \notin DOMAIN edge THEN "KeyError"
    ELSE "ok"

\* for lang in repo["languages"]["edges"], from edge j on
RECURSIVE CollectEdges(_, _, _)
CollectEdges(edges, j, acc) ==
    IF j > Len(edges) THEN [err |-> "ok", items |-> acc]
    ELSE IF EdgeError(edges[j]) # "ok"
         THEN [err |-> EdgeError(edges[j]), items |-> acc]
    ELSE CollectEdges(edges, j + 1,
                      Accumulate(acc, edges[j].node.name, edges[j].size))

\* for repo in repos, from repository r on; a repository whose edges are
\* an empty list is skipped
RECURSIVE CollectRepos(_, _, _)
CollectRepos(repos, r, acc) ==
    IF r > Len(repos) THEN [err |-> "ok", items |-> acc]
    ELSE IF PathError(repos[r], <<"languages", "edges">>) # "ok"
         THEN [err |-> PathError(repos[r], <<"languages", "edges">>), items |-> acc]
    ELSE LET edges == repos[r].languages.edges
             got == IF edges = <<>> THEN [err |-> "ok", items |-> acc]
                    ELSE CollectEdges(edges, 1, acc)
         IN  IF got.err # "ok" THEN got ELSE CollectRepos(repos, r + 1, got.items)

\* x put into a list sorted by bytes, largest first, behind the items of
\* its own size: sorted() is stable, with reverse=True too
RECURSIVE InsertByBytesDesc(_, _)
InsertByBytesDesc(sorted, x) ==
    IF sorted = <<>> THEN <<x>>
    ELSE IF Head(sorted).bytes >= x.bytes
         THEN <<Head(sorted)>> \o InsertByBytesDesc(Tail(sorted), x)
    ELSE <<x>> \o sorted

RECURSIVE SortLangsInto(_, _)
SortLangsInto(sorted, rest) ==
    IF rest = <<>> THEN sorted
    ELSE SortLangsInto(InsertByBytesDesc(sorted, Head(rest)), Tail(rest))

RECURSIVE InsertByBytesAsc(_, _)
InsertByBytesAsc(sorted, x) ==
    IF sorted = <<>> THEN <<x>>
    ELSE IF Head(sorted).bytes <= x.bytes
         THEN <<Head(sorted)>> \o InsertByBytesAsc(Tail(sorted), x)
    ELSE <<x>> \o sorted

RECURSIVE SortLangsAscInto(_, _)
SortLangsAscInto(sorted, rest) ==
    IF rest = <<>> THEN sorted
    ELSE SortLangsAscInto(InsertByBytesAsc(sorted, Head(rest)), Tail(rest))

\* sorted() without reverse=True
SortLangsAscending(language_bytes) == SortLangsAscInto(<<>>, language_bytes)

\* sorted(language_bytes.items(), key=lambda x: x[1], reverse=True)
SortLangs(language_bytes) == SortLangsInto(<<>>, language_bytes)

\* sum(language_bytes.values())
TotalBytes(language_bytes) ==
    SumSeq([i \in 1..Len(language_bytes) |-> language_bytes[i].bytes])

\* (bytes_count / total_bytes) * 100
Percentage(bytes_count, total_bytes) == [num |-> bytes_count * 100, den |-> total_bytes]

\* the try statement of get_language_stats: its body, and {} from its
\* except clause
LanguageStatsTry(contribution_data) ==
    IF PathError(contribution_data, ReposPath) # "ok" THEN <<>>
    ELSE LET repos == PathGet(contribution_data, ReposPath)
             got == CollectRepos(repos, 1, <<>>)
         IN  IF got.err # "ok" THEN <<>>
             ELSE LET sorted_langs == SortLangs(got.items)
                      total_bytes == TotalBytes(got.items)
                  IN  IF total_bytes = 0 THEN <<>>
                      ELSE [i \in 1..Len(sorted_langs) |->
                              [lang |-> sorted_langs[i].lang,
                               percentage |-> Percentage(sorted_langs[i].bytes,
                                                         total_bytes)]]

\* one try statement around both computations: no language statistics
\* for a body whose calendar cannot be read
SharesTheCalendarTry(contribution_data) ==
    IF Falsy(contribution_data) THEN <<>>
    ELSE IF PathError(contribution_data,
                      CalendarPath \o <<"totalContributions">>) # "ok" THEN <<>>
    ELSE LanguageStatsTry(contribution_data)

get_language_stats(contribution_data) ==
    IF Falsy(contribution_data) THEN <<>>
    ELSE LanguageStatsTry(contribution_data)

(***************************************************************************)
(* generate_streak_section, generate_languages_section                     *)
(***************************************************************************)
NL == "\n"

generate_streak_section(s, t) ==
    << "**" \o ToString(s) \o "** days consecutive coding", NL, NL,
       "Total contributions this year: **" \o ToString(t) \o "**" >>

\* f"{percentage:.1f}": the tenths nearest to num/den, a tie going to the
\* even one
Tenths(p) ==
    LET q == (10 * p.num) \div p.den
        r == (10 * p.num) % p.den
    IN  IF 2 * r > p.den THEN q + 1
        ELSE IF 2 * r = p.den THEN q + (q % 2)
        ELSE q

Format1f(p) == ToString(Tenths(p) \div 10) \o "." \o ToString(Tenths(p) % 10)

Row(item) == "| " \o item.lang \o " | " \o Format1f(item.percentage) \o "% |"

\* "\n".join(rows)
RECURSIVE JoinLines(_)
JoinLines(rows) ==
    IF rows = <<>> THEN <<>>
    ELSE IF Len(rows) = 1 THEN rows
    ELSE <<Head(rows), NL>> \o JoinLines(Tail(rows))

Placeholder == <<"No language data available">>

generate_languages_section(stats) ==
    IF stats = <<>> THEN Placeholder
    ELSE JoinLines(<<"| Language | Usage |", "|----------|-------|">>
                   \o [i \in 1..Len(stats) |-> Row(stats[i])])

(***************************************************************************)
(* update_readme                                                           *)
(***************************************************************************)
StreakStart == "<!--START_SECTION:streak-->"

StreakEnd == "<!--END_SECTION:streak-->"

LangsStart == "<!--START_SECTION:languages-->"

LangsEnd == "<!--END_SECTION:languages-->"

SubOpen == "<sub>Last updated:"

SubClose == "</sub>"

\* the places from p on where `open` stands
Opens(content, open, p) == {i \in p..Len(content) : content[i] = open}

\* where the match of open.*?close that starts at i ends (0: no match
\* starts at i); without re.DOTALL the dot matches no newline
MatchEnd(content, open, close, dotall, i) ==
    LET ends == {j \in (i + 1)..Len(content) :
                    /\ content[j] = close
                    /\ dotall \/ \A k \in (i + 1)..(j - 1) : content[k] # NL}
    IN  IF ends = {} THEN 0 ELSE CHOOSE j \in ends : \A k \in ends : j <= k

\* re.sub from position p on: the leftmost match is replaced and the scan
\* goes on behind it
RECURSIVE SubFrom(_, _, _, _, _, _)
SubFrom(content, open, close, dotall, repl, p) ==
    LET starts == {i \in Opens(content, open, p) :
                      MatchEnd(content, open, close, dotall, i) # 0}
    IN  IF starts = {} THEN SubSeq(content, p, Len(content))
        ELSE LET i == CHOOSE x \in starts : \A y \in starts : x <= y
                 j == MatchEnd(content, open, close, dotall, i)
             IN  SubSeq(content, p, i - 1) \o repl
                 \o SubFrom(content, open, close, dotall, repl, j + 1)

\* a substitution that appends the replacement when nothing matches
AppendWhenAbsent(content, open, close, dotall, repl) ==
    IF \A i \in 1..Len(content) : MatchEnd(content, open, close, dotall, i) = 0
    THEN content \o repl
    ELSE SubFrom(content, open, close, dotall, repl, 1)

\* re.sub(pattern, repl, content, flags)
ReSub(content, open, close, dotall, repl) ==
    SubFrom(content, open, close, dotall, repl, 1)

MonthName(m) ==
    << "January", "February", "March", "April", "May", "June", "July",
       "August", "September", "October", "November", "December" >>[m]

Pad2(n) == IF n < 10 THEN "0" \o ToString(n) ELSE ToString(n)

\* datetime.now().strftime("%B %d, %Y at %H:%M UTC")
now == MonthName(NowYMD[2]) \o " " \o Pad2(NowYMD[3]) \o ", "
       \o ToString(NowYMD[1]) \o " at 12:00 UTC"

StreakRepl(section) == <<StreakStart, NL>> \o section \o <<NL, StreakEnd>>

LangsRepl(section) == <<LangsStart, NL>> \o section \o <<NL, LangsEnd>>

StampRepl == <<SubOpen, " " \o now, SubClose>>

SubStreak(content, section) ==
    ReSub(content, StreakStart, StreakEnd, TRUE, StreakRepl(section))

SubLangs(content, section) ==
    ReSub(content, LangsStart, LangsEnd, TRUE, LangsRepl(section))

SubStamp(content) == ReSub(content, SubOpen, SubClose, FALSE, StampRepl)

\* the content update_readme writes back
update_readme(content, s_section, l_section) ==
    SubStamp(SubLangs(SubStreak(content, s_section), l_section))

(***************************************************************************)
(* main: one action per call.                                              *)
(***************************************************************************)
\* response.json()
ResponseJson(r) ==
    BodyJson(r.body.entries, r.body.total, r.body.emptyWeek, r.body.repos,
             r.body.miss, r.body.at)

\* a fetch that never looks at the status code
IgnoresStatus(r) == ResponseJson(r)

\* what get_contribution_data returns
get_contribution_data(r) == IF r.status_code # 200 THEN None ELSE ResponseJson(r)

\* data = get_contribution_data(); if not data: return
Fetch ==
    /\ pc = "get_contribution_data"
    /\ data' = get_contribution_data(response)
    /\ pc' = IF Falsy(data') THEN "exit" ELSE "calculate_streak"
    /\ UNCHANGED <<response, readme, streak, total_contributions, language_stats,
                   streak_section, languages_section, update_calls, writes>>

\* streak, total_contributions = calculate_streak(data)
CalculateStreak ==
    /\ pc = "calculate_streak"
    /\ LET r == calculate_streak(data)
       IN  IF r.raised # "none"
           THEN /\ pc' = "crashed"
                /\ UNCHANGED <<streak, total_contributions>>
           ELSE /\ pc' = "get_language_stats"
                /\ streak' = r.streak
                /\ total_contributions' = r.total
    /\ UNCHANGED <<response, readme, data, language_stats, streak_section,
                   languages_section, update_calls, writes>>

\* language_stats = get_language_stats(data)
GetLanguageStats ==
    /\ pc = "get_language_stats"
    /\ language_stats' = get_language_stats(data)
    /\ pc' = "generate_streak_section"
    /\ UNCHANGED <<response, readme, data, streak, total_contributions,
                   streak_section, languages_section, update_calls, writes>>

\* streak_section = generate_streak_section(streak, total_contributions)
GenerateStreakSection ==
    /\ pc = "generate_streak_section"
    /\ streak_section' = generate_streak_section(streak, total_contributions)
    /\ pc' = "generate_languages_section"
    /\ UNCHANGED <<response, readme, data, streak, total_contributions,
                   language_stats, languages_section, update_calls, writes>>

\* languages_section = generate_languages_section(language_stats)
GenerateLanguagesSection ==
    /\ pc = "generate_languages_section"
    /\ languages_section' = generate_languages_section(language_stats)
    /\ pc' = "update_readme"
    /\ UNCHANGED <<response, readme, data, streak, total_contributions,
                   language_stats, streak_section, update_calls, writes>>

\* update_readme(streak_section, languages_section)
UpdateReadme ==
    /\ pc = "update_readme"
    /\ readme' = update_readme(readme, streak_section, languages_section)
    /\ update_calls' = update_calls + 1
    /\ writes' = writes + 1
    /\ pc' = "done"
    /\ UNCHANGED <<response, data, streak, total_contributions, language_stats,
                   streak_section, languages_section>>

Next ==
    \/ Fetch
    \/ CalculateStreak
    \/ GetLanguageStats
    \/ GenerateStreakSection
    \/ GenerateLanguagesSection
    \/ UpdateReadme

(***************************************************************************)
(* The environments a run starts in.                                       *)
(***************************************************************************)
\* the date strings of the days from DaysBack days ago to tomorrow (a
\* server whose day has already turned reports tomorrow)
DateStrings ==
    {d \in {2024} \X (2..3) \X (1..31) :
        /\ ValidDate(d)
        /\ ToOrdinal(d) >= MinusDays(today, DaysBack)
        /\ ToOrdinal(d) <= today + 1}

\* the code tests a count for = 0 and for > 0 only
Counts == {0, 3}

Totals == {0, 7}

Langs == {"Python", "C", "Go"}

Sizes == {0, 100, 300}

DocTokens ==
    {StreakStart, StreakEnd, LangsStart, LangsEnd, SubOpen, SubClose, NL, "text"}

SomeEntries == << <<NowYMD, 3>>, <<<<2024, 2, 29>>, 3>> >>

SomeRepos == << << <<"Python", 300>>, <<"C", 100>> >> >>

FullDoc ==
    << StreakStart, "text", StreakEnd, NL, LangsStart, LangsEnd, NL,
       SubOpen, " never", SubClose >>

WellFormed(entries, total, emptyWeek, repos) ==
    [entries |-> entries, total |-> total, emptyWeek |-> emptyWeek,
     repos |-> repos, miss |-> "none", at |-> 0]

\* the edges e as three repositories, the second one without languages
SplitRepos(e, k) == <<SubSeq(e, 1, k), <<>>, SubSeq(e, k + 1, Len(e))>>

InitLocals ==
    /\ pc = "get_contribution_data"
    /\ data = None
    /\ streak = 0
    /\ total_contributions = 0
    /\ language_stats = <<>>
    /\ streak_section = <<>>
    /\ languages_section = <<>>
    /\ update_calls = 0
    /\ writes = 0

\* every calendar of up to MaxEntries day entries, in any order
InitStreak ==
    /\ \E entries \in SeqsUpTo(DateStrings \X Counts, MaxEntries),
          total \in Totals, emptyWeek \in BOOLEAN :
            /\ emptyWeek => entries = <<>>
            /\ response = [status_code |-> 200,
                           body |-> WellFormed(entries, total, emptyWeek, SomeRepos)]
    /\ readme = FullDoc
    /\ InitLocals

\* every list of up to MaxEdges language edges, over up to three repositories
InitLang ==
    /\ \E e \in SeqsUpTo(Langs \X Sizes, MaxEdges), noRepos \in BOOLEAN :
         \E k \in 0..Len(e) :
            /\ noRepos => e = <<>>
            /\ response = [status_code |-> 200,
                           body |-> WellFormed(SomeEntries, 7, FALSE,
                                               IF noRepos THEN <<>>
                                               ELSE SplitRepos(e, k))]
    /\ readme = FullDoc
    /\ InitLocals

\* every document of up to MaxDocLen tokens
InitReadme ==
    /\ readme \in SeqsUpTo(DocTokens, MaxDocLen)
    /\ response = [status_code |-> 200,
                   body |-> WellFormed(SomeEntries, 7, FALSE, SomeRepos)]
    /\ InitLocals

SpecStreak == InitStreak /\ [][Next]_vars

SpecLang == InitLang /\ [][Next]_vars

SpecReadme == InitReadme /\ [][Next]_vars

(***************************************************************************)
(* The environments of whole runs: a failed or a successful fetch, and a   *)
(* body that is well-formed or lacks one key (or has a null user).         *)
(***************************************************************************)
MissKeys ==
    {"none", "data", "user", "null:user", "contributionsCollection",
     "contributionCalendar", "totalContributions", "weeks", "repositories",
     "nodes"}

\* the keys of the elements of a list: `at` says which element lacks one
MissKeysAt ==
    {"contributionDays", "date", "contributionCount", "languages", "edges",
     "node", "name", "size"}

Places == {1, 2}

MainDays == {<<NowYMD, 3>>, <<<<2024, 2, 29>>, 3>>, <<<<2024, 2, 29>>, 0>>}

MainRepos ==
    { <<>>,
      << << <<"Python", 300>>, <<"C", 100>> >> >>,
      << << <<"C", 100>> >>, <<>>, << <<"Go", 0>>, <<"C", 200>> >> >> }

MainDocs == {FullDoc, <<"text", NL, LangsStart, LangsEnd>>}

Init ==
    /\ \E entries \in SeqsUpTo(MainDays, MaxEntries), repos \in MainRepos,
          miss \in MissKeys \cup MissKeysAt, at \in Places,
          status \in {200, 401} :
            /\ miss \in MissKeys => at = 1
            /\ status # 200 => (miss = "none" /\ Len(entries) = 0)
            /\ response = [status_code |-> status,
                           body |-> [entries |-> entries, total |-> 7,
                                     emptyWeek |-> FALSE, repos |-> repos,
                                     miss |-> miss, at |-> at]]
    /\ readme \in MainDocs
    /\ InitLocals

Spec == Init /\ [][Next]_vars

(***************************************************************************)
(* What the claims speak of, stated on the environment of the run and not  *)
(* through the operators above.                                            *)
(***************************************************************************)
Body == response.body

\* calculate_streak, get_language_stats, ... have returned to main
StreakDone ==
    pc \in {"get_language_stats", "generate_streak_section",
            "generate_languages_section", "update_readme", "done"}

LangDone ==
    pc \in {"generate_streak_section", "generate_languages_section",
            "update_readme", "done"}

SectionsDone == pc \in {"update_readme", "done"}

\* the calendar of the data model: a trailing window ending today, in
\* which every date appears at most once
IsCalendar(entries) ==
    /\ \A i, j \in 1..Len(entries) : entries[i][1] = entries[j][1] => i = j
    /\ \A i \in 1..Len(entries) : ToOrdinal(entries[i][1]) <= today

HasEntry(entries, d) == \E i \in 1..Len(entries) : ToOrdinal(entries[i][1]) = d

\* day d has an entry with count > 0
PositiveOn(entries, d) ==
    \E i \in 1..Len(entries) : ToOrdinal(entries[i][1]) = d /\ entries[i][2] > 0

\* the length of the run of consecutive days with count > 0 that ends at d
RECURSIVE RunEndingAt(_, _)
RunEndingAt(entries, d) ==
    IF PositiveOn(entries, d) THEN 1 + RunEndingAt(entries, d - 1) ELSE 0

Anchor(entries) == IF PositiveOn(entries, today) THEN today ELSE today - 1

\* the same entries, oldest date first
RECURSIVE OldestFirst(_, _)
OldestFirst(entries, d) ==
    IF d > today + 1 THEN <<>>
    ELSE SelectSeq(entries, LAMBDA e : ToOrdinal(e[1]) = d)
         \o OldestFirst(entries, d + 1)

C2_StreakFromYesterday ==
    (StreakDone /\ IsCalendar(Body.entries) /\ ~PositiveOn(Body.entries, today))
        => streak = RunEndingAt(Body.entries, today - 1)

\* C8 as claimed: a calendar of no day entries gives streak 0 and total 0.
C8_EmptyGivesZeroTotal ==
    (StreakDone /\ Body.entries = <<>>)
        => (streak = 0 /\ total_contributions = 0)

\* C8 as amended: a calendar of no day entries gives streak 0 and the
\* calendar's totalContributions scalar as it is.
C8_EmptyGivesScalar ==
    (StreakDone /\ Body.entries = <<>>)
        => (streak = 0 /\ total_contributions = Body.total)

\* C8 happens: no entries, in no week or in one empty week, and a scalar
\* that is not 0
C8_Witness ==
    /\ pc = "done"
    /\ Body.entries = <<>>
    /\ Body.emptyWeek
    /\ Body.total = 7
    /\ total_contributions = 7
    /\ streak = 0

\* C10: for a calendar without duplicate dates and without a date after
\* today, the streak is >= 0, every one of the `streak` days counted back
\* from the anchor (today if active, else yesterday) has an entry with
\* count > 0, and the result is the same for the entries in another order.
C10_NeverOverCounts ==
    (StreakDone /\ IsCalendar(Body.entries))
        => /\ streak >= 0
           /\ \A k \in 0..(streak - 1) :
                PositiveOn(Body.entries, Anchor(Body.entries) - k)
           /\ streak = calculate_streak(
                          BodyJson(OldestFirst(Body.entries, today - DaysBack),
                                   Body.total, Body.emptyWeek, Body.repos,
                                   "none", 0)).streak

\* C10 happens: entries that arrive neither newest first nor oldest first,
\* and a streak of two days
C10_Witness ==
    /\ pc = "done"
    /\ IsCalendar(Body.entries)
    /\ Len(Body.entries) = 3
    /\ ToOrdinal(Body.entries[1][1]) < ToOrdinal(Body.entries[2][1])
    /\ ToOrdinal(Body.entries[3][1]) < ToOrdinal(Body.entries[2][1])
    /\ streak = 2

\* every edge of every repository of the body, in order
RECURSIVE AllEdges(_)
AllEdges(repos) == IF repos = <<>> THEN <<>> ELSE Head(repos) \o AllEdges(Tail(repos))

LangNames(repos) == {AllEdges(repos)[i][1] : i \in 1..Len(AllEdges(repos))}

\* the byte size of a language summed over all repositories
BytesOf(repos, name) ==
    LET e == AllEdges(repos)
    IN  SumSeq([i \in 1..Len(e) |-> IF e[i][1] = name THEN e[i][2] ELSE 0])

GrandTotal(repos) ==
    LET e == AllEdges(repos) IN SumSeq([i \in 1..Len(e) |-> e[i][2]])

StatsLangs == {language_stats[i].lang : i \in 1..Len(language_stats)}

\* C5: when the grand total is > 0, every share is 100 * bytes / grand
\* total, the shares sum to 100, and the languages are listed in
\* non-increasing order of their accumulated bytes.
C5_SharesAndOrder ==
    (LangDone /\ GrandTotal(Body.repos) > 0)
        => /\ language_stats # <<>>
           /\ \A i \in 1..Len(language_stats) :
                LET p == language_stats[i].percentage
                IN  /\ p.den > 0
                    /\ p.num * GrandTotal(Body.repos)
                         = 100 * BytesOf(Body.repos, language_stats[i].lang) * p.den
           /\ SumSeq([i \in 1..Len(language_stats) |->
                        language_stats[i].percentage.num * GrandTotal(Body.repos)])
                = 100 * GrandTotal(Body.repos)
                      * language_stats[1].percentage.den
           /\ \A i \in 1..Len(language_stats) :
                language_stats[i].percentage.den = language_stats[1].percentage.den
           /\ \A i \in 1..(Len(language_stats) - 1) :
                BytesOf(Body.repos, language_stats[i].lang)
                    >= BytesOf(Body.repos, language_stats[i + 1].lang)

\* C5 happens: a language whose bytes come from two repositories, listed
\* behind a larger one that the response names later
C5_Witness ==
    /\ pc = "done"
    /\ Len(language_stats) = 2
    /\ Len(Body.repos) = 3
    /\ Body.repos[1] # <<>>
    /\ Body.repos[3] # <<>>
    /\ AllEdges(Body.repos)[1][1] = language_stats[2].lang
    /\ BytesOf(Body.repos, language_stats[2].lang) = 200
    /\ BytesOf(Body.repos, language_stats[1].lang) = 300

\* C9: no language is filtered out.  When the grand total is > 0 the
\* distribution lists exactly the languages any repository names, each
\* once, one of accumulated size 0 with share 0; when the grand total is 0
\* the distribution is empty and the rendered section is the placeholder
\* line.
C9_NoFiltering ==
    /\ (LangDone /\ GrandTotal(Body.repos) > 0)
          => /\ StatsLangs = LangNames(Body.repos)
             /\ Len(language_stats) = Cardinality(LangNames(Body.repos))
             /\ \A i \in 1..Len(language_stats) :
                  BytesOf(Body.repos, language_stats[i].lang) = 0
                      => language_stats[i].percentage.num = 0
             /\ SectionsDone => languages_section # Placeholder
    /\ (LangDone /\ GrandTotal(Body.repos) = 0)
          => /\ language_stats = <<>>
             /\ SectionsDone => languages_section = Placeholder

\* C9 happens: a language of size 0 is listed, with 0.0%, beside one of
\* size > 0
C9_Witness ==
    /\ pc = "done"
    /\ GrandTotal(Body.repos) > 0
    /\ \E i \in 1..Len(language_stats) :
          /\ BytesOf(Body.repos, language_stats[i].lang) = 0
          /\ language_stats[i].percentage.num = 0
          /\ \E k \in 1..Len(languages_section) :
                languages_section[k] = "| " \o language_stats[i].lang \o " | 0.0% |"

(***************************************************************************)
(* The regions of the document.                                            *)
(***************************************************************************)
\* the pattern open.*?close matches somewhere in the content
RegionPresent(content, open, close, dotall) ==
    \E i, j \in 1..Len(content) :
        /\ i < j
        /\ content[i] = open
        /\ content[j] = close
        /\ dotall \/ \A k \in (i + 1)..(j - 1) : content[k] # NL

StreakAbsent(content) == ~RegionPresent(content, StreakStart, StreakEnd, TRUE)

LangsAbsent(content) == ~RegionPresent(content, LangsStart, LangsEnd, TRUE)

StampAbsent(content) == ~RegionPresent(content, SubOpen, SubClose, FALSE)

Tokens(text) == {text[i] : i \in 1..Len(text)}

\* the text a run generates: what no document of DocTokens holds
Generated(section) == Tokens(section) \ DocTokens

\* C6: update_readme leaves alone a region whose markers are absent: none
\* of the text generated for it is in the document written, which is the
\* document the substitutions of the other regions alone give; with all
\* three absent the document written is the document read.  The call
\* returns whatever is absent.
C6_AbsentRegionIsNoOp ==
    [][pc = "update_readme" =>
        /\ pc' = "done"
        /\ StreakAbsent(readme) =>
              /\ Generated(streak_section) \cap Tokens(readme') = {}
              /\ readme' = SubStamp(SubLangs(readme, languages_section))
        /\ LangsAbsent(readme) =>
              /\ Generated(languages_section) \cap Tokens(readme') = {}
              /\ readme' = SubStamp(SubStreak(readme, streak_section))
        /\ StampAbsent(readme) =>
              /\ Generated(StampRepl) \cap Tokens(readme') = {}
              /\ readme' = SubLangs(SubStreak(readme, streak_section),
                                    languages_section)
        /\ (StreakAbsent(readme) /\ LangsAbsent(readme) /\ StampAbsent(readme))
              => readme' = readme
      ]_vars

\* C6 happens: a document written with the streak region replaced, that
\* has neither the languages markers nor the timestamp line
C6_Witness ==
    /\ pc = "done"
    /\ writes = 1
    /\ Generated(streak_section) \subseteq Tokens(readme)
    /\ Tokens(readme) \cap {LangsStart, LangsEnd, SubOpen, SubClose} = {}
    /\ Generated(languages_section) \cap Tokens(readme) = {}
    /\ Generated(StampRepl) \cap Tokens(readme) = {}

(***************************************************************************)
(* Whole runs.                                                             *)
(***************************************************************************)
\* C3: after a fetch that reports a non-success status the run ends
\* without update_readme: the document is never changed or written and no
\* section is rendered; and the document is only ever written after a
\* fetch that succeeded.
C3_NoWriteWithoutFetch ==
    [][/\ response.status_code # 200 =>
            /\ pc' = "exit"
            /\ readme' = readme
            /\ update_calls' = 0
            /\ writes' = 0
            /\ streak_section' = <<>>
            /\ languages_section' = <<>>
       /\ (writes' # writes \/ update_calls' # update_calls \/ readme' # readme) =>
            /\ response.status_code = 200
            /\ ~Falsy(data)
      ]_vars

\* C3 happens: the run has ended after a fetch with a non-success status
C3_Witness ==
    /\ response.status_code # 200
    /\ pc = "exit"
    /\ writes = 0
    /\ update_calls = 0

CalendarKeys ==
    {"contributionsCollection", "contributionCalendar", "totalContributions", "weeks"}

ReposKeys == {"repositories", "nodes"}

\* the body lacks a key that calculate_streak reads
CalendarLacks(b) ==
    \/ b.miss \in {"data", "user"} \cup CalendarKeys
    \/ b.miss = "contributionDays" /\ b.at \in 1..NumWeeks(Len(b.entries))
    \/ b.miss \in {"date", "contributionCount"} /\ b.at \in 1..Len(b.entries)

\* only the calendar part of the body is malformed
CalendarOnlyLacks(b) == CalendarLacks(b) /\ b.miss \notin {"data", "user"}

\* only the repositories part of the body is malformed
ReposOnlyLacks(b) ==
    \/ b.miss \in ReposKeys
    \/ b.miss \in {"languages", "edges"} /\ b.at \in 1..Len(b.repos)
    \/ b.miss \in {"node", "name", "size"} /\ b.at \in 1..Len(AllEdges(b.repos))

\* the body with nothing missing
Repaired(b) == BodyJson(b.entries, b.total, b.emptyWeek, b.repos, "none", 0)

\* C4: for a body that lacks a key calculate_streak reads, at any level,
\* the call returns (0, 0) and raises nothing, also when the key is
\* missed after the total and some days have been read.
C4_MissingFieldGivesZero ==
    CalendarLacks(Body) =>
        /\ calculate_streak(ResponseJson(response)) = Returns(0, 0)
        /\ pc # "crashed"
        /\ StreakDone => (streak = 0 /\ total_contributions = 0)

\* C4 happens: the second day of a calendar lacks its date, behind a
\* first day that was read
C4_Witness ==
    /\ StreakDone
    /\ Body.miss = "date"
    /\ Body.at = 2
    /\ Len(Body.entries) >= 2
    /\ Body.entries[1][2] > 0
    /\ streak = 0
    /\ total_contributions = 0

\* C7: after a successful fetch a malformed calendar part gives (0, 0)
\* and leaves the distribution what it is for the well-formed body, a
\* malformed repositories part gives an empty distribution and leaves
\* streak and total what they are for the well-formed body; either way
\* the run goes on, and ends with update_readme invoked exactly once.
C7_DegradesLocally ==
    (response.status_code = 200 /\ (CalendarOnlyLacks(Body) \/ ReposOnlyLacks(Body)))
        => /\ pc \notin {"exit", "crashed"}
           /\ update_calls = (IF pc = "done" THEN 1 ELSE 0)
           /\ (StreakDone /\ CalendarOnlyLacks(Body))
                 => (streak = 0 /\ total_contributions = 0)
           /\ (LangDone /\ CalendarOnlyLacks(Body))
                 => language_stats = get_language_stats(Repaired(Body))
           /\ (LangDone /\ ReposOnlyLacks(Body)) => language_stats = <<>>
           /\ (StreakDone /\ ReposOnlyLacks(Body))
                 => /\ streak = calculate_streak(Repaired(Body)).streak
                    /\ total_contributions = calculate_streak(Repaired(Body)).total

\* C7 happens: a run that ended with the document written, for a body
\* without its weeks and with languages to report
C7_Witness ==
    /\ pc = "done"
    /\ update_calls = 1
    /\ Body.miss = "weeks"
    /\ streak = 0
    /\ total_contributions = 0
    /\ Len(language_stats) = 2
    /\ Len(Body.entries) > 0

====
